---- MODULE Spec2Model ----
(***************************************************************************)
(* The in-memory Q&A retrieval engine of the platform knowledge bot:       *)
(* SimpleVectorStore (src/slack.js, from line 153) and RAGPipeline         *)
(* (src/rag_pipeline.js).                                                  *)
(*                                                                         *)
(* Texts are sequences of one-character strings.  Scores are exact         *)
(* rationals <<numerator, denominator>> with a positive denominator, not   *)
(* reduced (compare them with GE, GT, EQ); the JavaScript NaN produced by  *)
(* 0/0 is the separate value NaN.  The code's doubles round sums of 0.1;   *)
(* the model does not, which leaves the cap at 1.0, the threshold test of  *)
(* one computed value and the order of distinct scores as they are.        *)
(* An async function runs without interruption from one await to the next, *)
(* so each action of Spec is one such segment of one caller.               *)
(***************************************************************************)
EXTENDS Integers, Sequences, FiniteSets, TLC

VARIABLES
    csvData,          \* the rows the Corpus Source yields (the file's content)
    documents,        \* SimpleVectorStore.documents
    initialized,      \* SimpleVectorStore.initialized
    pipeInitialized,  \* RAGPipeline.initialized
    loadCompleted,    \* history: some loadDocuments call has run to its end
    task,             \* per caller: the operation in progress and its locals
    call              \* the last direct call of a retrieval function and its result

vars == <<csvData, documents, initialized, pipeInitialized, loadCompleted, task, call>>

---------------------------------------------------------------------------
(* Text primitives of the JavaScript runtime the code relies on.           *)

Range(s) == {s[i] : i \in 1..Len(s)}

UpperCase == <<"A","B","C","D","E","F","G","H","I","J","K","L","M",
               "N","O","P","Q","R","S","T","U","V","W","X","Y","Z">>
LowerCase == <<"a","b","c","d","e","f","g","h","i","j","k","l","m",
               "n","o","p","q","r","s","t","u","v","w","x","y","z">>
Digits == {"0","1","2","3","4","5","6","7","8","9"}

UpperChars == Range(UpperCase)
WordChars == Range(UpperCase) \cup Range(LowerCase) \cup Digits \cup {"_"}
SpaceChars == {" ", "\t", "\n", "\r"}
LowerOf == [c \in UpperChars |-> LowerCase[CHOOSE i \in 1..Len(UpperCase) : UpperCase[i] = c]]

\* the regular expression class \w
isWordChar(c) == c \in WordChars

\* the regular expression class \s
isSpace(c) == c \in SpaceChars

toLowerChar(c) == IF c \in UpperChars THEN LowerOf[c] ELSE c

\* String.prototype.toLowerCase
toLowerCase(s) == [i \in 1..Len(s) |-> toLowerChar(s[i])]

\* String.prototype.trim
trim(s) ==
    LET keep == {i \in 1..Len(s) : ~isSpace(s[i])}
    IN  IF keep = {} THEN <<>>
        ELSE LET lo == CHOOSE i \in keep : \A j \in keep : i <= j
                 hi == CHOOSE i \in keep : \A j \in keep : i >= j
             IN  SubSeq(s, lo, hi)

\* String.prototype.includes
includes(hay, needle) ==
    \E i \in 0..(Len(hay) - Len(needle)) : SubSeq(hay, i + 1, i + Len(needle)) = needle

RECURSIVE splitFrom(_, _, _, _)
splitFrom(s, i, cur, acc) ==
    IF i > Len(s) THEN Append(acc, cur)
    ELSE IF isSpace(s[i])
         THEN LET rest == {j \in (i + 1)..Len(s) : ~isSpace(s[j])}
                  nxt  == IF rest = {} THEN Len(s) + 1
                          ELSE CHOOSE j \in rest : \A m \in rest : j <= m
              IN  splitFrom(s, nxt, <<>>, Append(acc, cur))
         ELSE splitFrom(s, i + 1, Append(cur, s[i]), acc)

\* String.prototype.split(/\s+/): the pieces between runs of whitespace, with an
\* empty piece before a leading run and after a trailing one
splitWS(s) == splitFrom(s, 1, <<>>, <<>>)

\* Array.prototype.slice(0, k)
slice(s, k) == SubSeq(s, 1, IF k < Len(s) THEN k ELSE Len(s))

---------------------------------------------------------------------------
(* Scores.                                                                 *)

NaN == <<0, 0>>
isNaN(a) == a[2] = 0

\* a >= b, a > b on numbers: false as soon as one side is NaN
GE(a, b) == ~isNaN(a) /\ ~isNaN(b) /\ a[1] * b[2] >= b[1] * a[2]
GT(a, b) == ~isNaN(a) /\ ~isNaN(b) /\ a[1] * b[2] > b[1] * a[2]

EQ(a, b) == GE(a, b) /\ GE(b, a)

One == <<1, 1>>
Zero == <<0, 1>>

---------------------------------------------------------------------------
(* SimpleVectorStore: tokenizer and loader.                                *)

MinFieldLength == 10

Unknown == <<"u","n","k","n","o","w","n">>
Nan == <<"n","a","n">>

tokenize(text) ==
    LET replaced == [i \in 1..Len(text) |->
                       IF isWordChar(text[i]) \/ isSpace(text[i]) THEN text[i] ELSE " "]
        kept == SelectSeq(splitWS(replaced), LAMBDA token : Len(token) > 2)
    IN  [i \in 1..Len(kept) |-> toLowerCase(kept[i])]

\* the row test without the answer's checks of line 200
acceptsRowQuestionOnly(row) ==
    /\ row.question # <<>> /\ row.answer # <<>>
    /\ LET question == trim(row.question)
       IN  ~(question = <<>> \/ question = <<"n","a","n">> \/ Len(question) < 10)

\* A row is [question, answer, source]; a column the file lacks or leaves empty is
\* the empty text (undefined and "" are both falsy).
\* The guards of lines 193, 199 and 200: the row yields a document.
acceptsRow(row) ==
    /\ row.question # <<>> /\ row.answer # <<>>
    /\ LET question == trim(row.question)
           answer == trim(row.answer)
       IN  /\ ~(question = <<>> \/ question = Nan \/ Len(question) < MinFieldLength)
           /\ ~(answer = <<>> \/ answer = Nan \/ Len(answer) < MinFieldLength)

\* The document built from data[index + 1]; index is the JavaScript (0-based) index.
makeDocument(row, index) ==
    LET question == trim(row.question)
        answer == trim(row.answer)
        source == IF row.source # <<>> THEN row.source ELSE Unknown
    IN  [ id |-> <<"question_", index>>,
          content |-> question,
          metadata |-> [ source |-> source, question |-> question, answer |-> answer,
                         qa_pair_id |-> index,
                         question_length |-> Len(question),
                         answer_length |-> Len(answer),
                         type |-> "qa" ],
          tokens |-> tokenize(toLowerCase(question)) ]

RECURSIVE loadLoop(_, _, _)
loadLoop(data, index, docs) ==
    IF ~(index < Len(data)) THEN docs
    ELSE loadLoop(data, index + 1,
                  IF acceptsRow(data[index + 1])
                  THEN Append(docs, makeDocument(data[index + 1], index))
                  ELSE docs)

\* loadDocuments once loadCSV has resolved with data: the new value of documents
loadDocuments(data) == loadLoop(data, 0, <<>>)

---------------------------------------------------------------------------
(* SimpleVectorStore: the two scorers and the fuser.                       *)

questionWords == << <<"h","o","w">>, <<"w","h","a","t">>, <<"w","h","e","r","e">>,
                    <<"w","h","e","n">>, <<"w","h","y">>, <<"w","h","o">>,
                    <<"w","h","i","c","h">> >>

\* intersection keeps every occurrence of a query token found in the document,
\* union is a Set; 0/0 is NaN and Math.min(NaN, 1.0) is NaN.  The boost is
\* 0.1 per matching question word, here in exact arithmetic.
calculateQuestionSimilarity(queryTokens, docTokens) ==
    LET intersection == SelectSeq(queryTokens, LAMBDA token : token \in Range(docTokens))
        union == Range(queryTokens) \cup Range(docTokens)
        I == Len(intersection)
        U == Cardinality(union)
        questionBoost == Cardinality({i \in 1..Len(questionWords) :
                             /\ questionWords[i] \in Range(queryTokens)
                             /\ questionWords[i] \in Range(docTokens)})
    IN  IF U = 0 THEN NaN
        ELSE IF 10 * I + questionBoost * U > 10 * U THEN One
        ELSE <<10 * I + questionBoost * U, 10 * U>>

\* results.sort((a, b) => b.similarity - a.similarity): descending and stable
insertDesc(acc, x) ==
    LET smaller == {j \in 1..Len(acc) : GT(x.similarity, acc[j].similarity)}
        pos == IF smaller = {} THEN Len(acc) + 1
               ELSE CHOOSE j \in smaller : \A m \in smaller : j <= m
    IN  SubSeq(acc, 1, pos - 1) \o <<x>> \o SubSeq(acc, pos, Len(acc))

RECURSIVE sortFrom(_, _, _)
sortFrom(results, i, acc) ==
    IF i > Len(results) THEN acc
    ELSE sortFrom(results, i + 1, insertDesc(acc, results[i]))

\* a sort that is forgotten
sortDescForgotten(results) == results

sortDesc(results) == sortFrom(results, 1, <<>>)

scoredResult(doc, similarity) ==
    [document |-> doc.content, metadata |-> doc.metadata, similarity |-> similarity]

RECURSIVE similarityLoopNoThreshold(_, _, _, _, _)
\* the scan without its threshold test
similarityLoopNoThreshold(docs, i, queryTokens, threshold, results) ==
    IF i > Len(docs) THEN results
    ELSE similarityLoopNoThreshold(docs, i + 1, queryTokens, threshold,
             Append(results, scoredResult(docs[i],
                 calculateQuestionSimilarity(queryTokens, docs[i].tokens))))

RECURSIVE similarityLoop(_, _, _, _, _)
similarityLoop(docs, i, queryTokens, threshold, results) ==
    IF i > Len(docs) THEN results
    ELSE LET similarity == calculateQuestionSimilarity(queryTokens, docs[i].tokens)
         IN  similarityLoop(docs, i + 1, queryTokens, threshold,
                            IF GE(similarity, threshold)
                            THEN Append(results, scoredResult(docs[i], similarity))
                            ELSE results)

\* similaritySearch after its await of initialize: lines 269-289
similarityScan(docs, query, k, threshold) ==
    LET queryTokens == tokenize(toLowerCase(query))
        results == similarityLoop(docs, 1, queryTokens, threshold, <<>>)
    IN  slice(sortDesc(results), k)

RECURSIVE wordScore(_, _, _, _)
\* twice the score the loop of lines 322-329 adds
wordScore(queryWords, i, questionLower, answerLower) ==
    IF i > Len(queryWords) THEN 0
    ELSE (IF includes(questionLower, queryWords[i]) THEN 4 ELSE 0)
         + (IF includes(answerLower, queryWords[i]) THEN 2 ELSE 0)
         + wordScore(queryWords, i + 1, questionLower, answerLower)

\* twice the score of one document: lines 307-334 (the halves come from the 0.5)
keywordScore(doc, queryLower, queryWords) ==
    LET questionLower == toLowerCase(doc.metadata.question)
        answerLower == toLowerCase(doc.metadata.answer)
    IN  (IF includes(questionLower, queryLower) THEN 6 ELSE 0)
        + (IF includes(answerLower, queryLower) THEN 4 ELSE 0)
        + wordScore(queryWords, 1, questionLower, answerLower)
        + (IF includes(toLowerCase(doc.metadata.source), queryLower) THEN 1 ELSE 0)

RECURSIVE keywordLoop(_, _, _, _, _)
keywordLoop(docs, i, queryLower, queryWords, results) ==
    IF i > Len(docs) THEN results
    ELSE LET score == keywordScore(docs[i], queryLower, queryWords)
         IN  keywordLoop(docs, i + 1, queryLower, queryWords,
                         IF score > 0
                         THEN Append(results, scoredResult(docs[i], <<score, 20>>))
                         ELSE results)

\* keywordSearch after its await of initialize: lines 302-350
keywordScan(docs, query, k) ==
    LET queryLower == toLowerCase(query)
        queryWords == SelectSeq(splitWS(queryLower), LAMBDA word : Len(word) > 2)
        results == keywordLoop(docs, 1, queryLower, queryWords, <<>>)
    IN  slice(sortDesc(results), k)

\* the deduplication that keeps every entry
uniqueLoopKeepsAll(allResults, i, seenIds, uniqueResults) == allResults

\* the deduplication that keeps the last entry of an id instead of the first
uniqueLoopLastWins(allResults, i, seenIds, uniqueResults) ==
    LET last(n) == \A m \in (n + 1)..Len(allResults) :
                       allResults[m].metadata.qa_pair_id # allResults[n].metadata.qa_pair_id
        kept == SelectSeq([n \in 1..Len(allResults) |-> n], last)
    IN  [n \in 1..Len(kept) |-> allResults[kept[n]]]

RECURSIVE uniqueLoop(_, _, _, _)
uniqueLoop(allResults, i, seenIds, uniqueResults) ==
    IF i > Len(allResults) THEN uniqueResults
    ELSE LET id == allResults[i].metadata.qa_pair_id
         IN  IF id \notin seenIds
             THEN uniqueLoop(allResults, i + 1, seenIds \cup {id},
                             Append(uniqueResults, allResults[i]))
             ELSE uniqueLoop(allResults, i + 1, seenIds, uniqueResults)

\* questionSearch once both searches have returned: lines 368-391
fuse(similarityResults, keywordResults, k) ==
    LET allResults == similarityResults \o keywordResults
        uniqueResults == uniqueLoop(allResults, 1, {}, <<>>)
    IN  slice(sortDesc(uniqueResults), k)

---------------------------------------------------------------------------
(* Inputs: the rows a source may hold and the queries a caller may send.   *)

MaxRows == 2
MaxTokens == 2
MaxTasks == 2

QAddVpnKey == <<"a","d","d"," ","v","p","n"," ","k","e","y">>
QAddVpnKeyNow == <<" "," ","A","d","d"," ","V","P","N"," ","k","e","y"," ","n","o","w","?"," "," ">>
QShort == <<"s","h","o","r","t">>
QHowResetVpn == <<"h","o","w"," ","r","e","s","e","t"," ","v","p","n">>
QIsItOk == <<"i","s"," ","i","t"," ","o","k"," ","t","o"," ","g","o">>
AUsePortal == <<"u","s","e"," ","t","h","e"," ","p","o","r","t","a","l">>
AAddVpnKeyPortal == <<"a","d","d"," ","v","p","n"," ","k","e","y"," ","i","n"," ","p","o","r","t","a","l">>
AIrrelevant == <<"i","r","r","e","l","e","v","a","n","t"," ","t","e","x","t"," ","h","e","r","e">>
ANotOk == <<"n","o"," ","i","t"," ","i","s"," ","n","o","t"," ","o","k">>
AAskOps == <<"a","s","k"," ","t","h","e"," ","o","p","s"," ","t","e","a","m">>
SWiki == <<"w","i","k","i">>
SFaq == <<"f","a","q">>
QueryNow == <<"A","d","d"," ","V","P","N"," ","k","e","y"," ","n","o","w","?">>
QueryHowAdd == <<"h","o","w"," ","a","d","d"," ","v","p","n"," ","k","e","y">>

Row(q, a, s) == [question |-> q, answer |-> a, source |-> s]

RowPool ==
    { Row(QAddVpnKey, AUsePortal, SWiki),
      Row(QAddVpnKeyNow, AAddVpnKeyPortal, <<>>),
      Row(QAddVpnKey, AAskOps, SFaq),
      Row(QIsItOk, ANotOk, SFaq),
      Row(QShort, AIrrelevant, SWiki),
      Row(QHowResetVpn, Nan, SWiki),
      Row(<<>>, AUsePortal, SWiki) }

RECURSIVE SeqsUpTo(_, _)
SeqsUpTo(S, n) ==
    IF n = 0 THEN {<<>>}
    ELSE LET shorter == SeqsUpTo(S, n - 1)
         IN  shorter \cup {Append(s, x) : s \in shorter, x \in S}

\* a source where three documents compete for the places of a top-2 search
CrowdedCorpora ==
    { << Row(QAddVpnKey, AUsePortal, SWiki),
         Row(QAddVpnKey, AAddVpnKeyPortal, SFaq),
         Row(QAddVpnKeyNow, AAddVpnKeyPortal, <<>>) >> }

Corpora == SeqsUpTo(RowPool, MaxRows) \cup CrowdedCorpora

Queries == {QAddVpnKey, QueryNow, QueryHowAdd, QIsItOk, SWiki, <<>>}

DefaultK == 5
Ks == {1, 2, DefaultK}

DefaultThreshold == <<4, 10>>
PipelineThreshold == <<3, 10>>
Thresholds == {Zero, PipelineThreshold, DefaultThreshold, One}

TokenPool == { <<"h","o","w">>, <<"w","h","y">>, <<"v","p","n">>, <<"k","e","y">> }
TokenSeqs == SeqsUpTo(TokenPool, MaxTokens)

---------------------------------------------------------------------------
(* Direct, sequential use of the store by a single caller.                 *)

NoCall == [op |-> "none", query |-> <<>>, k |-> 0, threshold |-> Zero,
           queryTokens |-> <<>>, docTokens |-> <<>>, score |-> Zero,
           similarityResults |-> <<>>, keywordResults |-> <<>>, result |-> <<>>]

\* a caller with no operation in progress
IdleTask == [pc |-> "idle", op |-> "none", query |-> <<>>, k |-> 0, threshold |-> Zero,
             phase |-> "none", similarityResults |-> <<>>, keywordResults |-> <<>>,
             relevantQuestions |-> <<>>, ret |-> [kind |-> "none"],
             scanned |-> <<>>, loading |-> FALSE, loadRejected |-> FALSE,
             generatorFailed |-> FALSE]

NoTasks == [t \in 1..MaxTasks |-> IdleTask]

\* initialize() awaited to its end by the only caller, the source being readable
DirectInitialize ==
    /\ ~initialized
    /\ documents' = loadDocuments(csvData)
    /\ initialized' = TRUE
    /\ loadCompleted' = TRUE
    /\ UNCHANGED <<csvData, pipeInitialized, task, call>>

DirectSimilaritySearch ==
    /\ initialized /\ call.op = "none"
    /\ \E query \in Queries, k \in Ks, threshold \in Thresholds :
         call' = [NoCall EXCEPT !.op = "similaritySearch", !.query = query, !.k = k,
                                !.threshold = threshold,
                                !.result = similarityScan(documents, query, k, threshold)]
    /\ UNCHANGED <<csvData, documents, initialized, pipeInitialized, loadCompleted, task>>

DirectKeywordSearch ==
    /\ initialized /\ call.op = "none"
    /\ \E query \in Queries, k \in Ks :
         call' = [NoCall EXCEPT !.op = "keywordSearch", !.query = query, !.k = k,
                                !.result = keywordScan(documents, query, k)]
    /\ UNCHANGED <<csvData, documents, initialized, pipeInitialized, loadCompleted, task>>

DirectQuestionSearch ==
    /\ initialized /\ call.op = "none"
    /\ \E query \in Queries, k \in Ks, threshold \in Thresholds :
         LET similarityResults == similarityScan(documents, query, k, threshold)
             keywordResults == keywordScan(documents, query, k)
         IN  call' = [NoCall EXCEPT !.op = "questionSearch", !.query = query, !.k = k,
                                    !.threshold = threshold,
                                    !.similarityResults = similarityResults,
                                    !.keywordResults = keywordResults,
                                    !.result = fuse(similarityResults, keywordResults, k)]
    /\ UNCHANGED <<csvData, documents, initialized, pipeInitialized, loadCompleted, task>>

\* the caller has consumed the result; the next call may follow
DirectReturn ==
    /\ call.op # "none"
    /\ call' = NoCall
    /\ UNCHANGED <<csvData, documents, initialized, pipeInitialized, loadCompleted, task>>

SearchInit ==
    /\ csvData \in Corpora
    /\ documents = <<>>
    /\ initialized = FALSE
    /\ pipeInitialized = FALSE
    /\ loadCompleted = FALSE
    /\ task = NoTasks
    /\ call = NoCall

SearchNext ==
    \/ DirectInitialize
    \/ DirectSimilaritySearch
    \/ DirectKeywordSearch
    \/ DirectQuestionSearch
    \/ DirectReturn

SearchSpec == SearchInit /\ [][SearchNext]_vars

\* the scorer applied to a pair of token sequences
DirectScore ==
    /\ call.op = "none"
    /\ \E queryTokens \in TokenSeqs, docTokens \in TokenSeqs :
        call' = [NoCall EXCEPT !.op = "calculateQuestionSimilarity",
                               !.queryTokens = queryTokens, !.docTokens = docTokens,
                               !.score = calculateQuestionSimilarity(queryTokens, docTokens)]

ScoreInit ==
    /\ csvData = <<>>
    /\ documents = <<>>
    /\ initialized = FALSE
    /\ pipeInitialized = FALSE
    /\ loadCompleted = FALSE
    /\ task = NoTasks
    /\ call = NoCall

ScoreNext ==
    \/ /\ DirectScore
       /\ UNCHANGED <<csvData, documents, initialized, pipeInitialized, loadCompleted, task>>
    \/ DirectReturn

ScoreSpec == ScoreInit /\ [][ScoreNext]_vars

---------------------------------------------------------------------------
(* Concurrent callers on the one store and the one pipeline.               *)
(*                                                                         *)
(* task[t].pc is the await the caller t is suspended at:                   *)
(*   "status"      getBotResponse awaits checkModelStatus (rag 172)        *)
(*   "csv"         loadDocuments awaits loadCSV (slack 185)                *)
(*   "loaded"      initialize awaits loadDocuments, which has returned     *)
(*   "inited"      the caller named by phase awaits initialize, returned   *)
(*   "pipeInited"  getBotResponse awaits RAGPipeline.initialize (rag 82)   *)
(*   "simReturned" questionSearch awaits similaritySearch (slack 364)      *)
(*   "kwReturned"  questionSearch awaits keywordSearch (slack 365)         *)
(*   "searched"    getBotResponse awaits questionSearch (rag 87)           *)
(*   "generating"  callLocalAI awaits the Generator (rag 25)               *)
(* phase names the caller of SimpleVectorStore.initialize: "direct" (the   *)
(* operation itself), "pipe" (RAGPipeline.initialize), "sim", "kw".        *)
(* scanned, loading, loadRejected and generatorFailed are history: what   *)
(* the scans of the call read, whether the pending initialize called       *)
(* loadDocuments, whether a loadCSV of the call rejected, whether its      *)
(* Generator call threw.                                                   *)
(* A rejection travelling up through awaiting frames touches no shared     *)
(* state and is one step with the handler that catches it; so is the       *)
(* return of a finished top-level operation to its caller.                 *)

Tasks == 1..MaxTasks

Ops == {"initialize", "similaritySearch", "keywordSearch", "questionSearch",
        "getBotResponse"}

TaskQueries == {QAddVpnKey}

TaskCorpora ==
    { <<>>,
      << Row(QAddVpnKey, AUsePortal, SWiki),
         Row(QShort, AIrrelevant, SWiki),
         Row(QAddVpnKeyNow, AAddVpnKeyPortal, <<>>) >> }

\* initialize that does not wait for the load it needs
initializeWithoutAwait(rec, phase) ==
    [rec EXCEPT !.pc = "inited", !.phase = phase, !.loading = FALSE]

\* initialize that ignores the flag and loads on every call
initializeAlwaysLoads(rec, phase) ==
    [rec EXCEPT !.pc = "csv", !.phase = phase, !.loading = TRUE]

\* SimpleVectorStore.initialize up to its first await, entered by the caller phase:
\* with the flag set it returns at once, otherwise loadDocuments calls loadCSV
\* (loading records which of the two the pending call did)
initialize(rec, phase) ==
    IF ~initialized
    THEN [rec EXCEPT !.pc = "csv", !.phase = phase, !.loading = TRUE]
    ELSE [rec EXCEPT !.pc = "inited", !.phase = phase, !.loading = FALSE]

\* what a scan reads of the index: each document's identity and question
observed(docs) ==
    [i \in 1..Len(docs) |-> [qa_pair_id |-> docs[i].metadata.qa_pair_id,
                             question |-> docs[i].metadata.question]]

\* a caller invokes an exported operation with the defaults of its signature
Call(t) ==
    /\ task[t].pc = "idle"
    /\ \E op \in Ops, query \in TaskQueries :
         LET rec == [IdleTask EXCEPT !.op = op, !.query = query, !.k = DefaultK,
                        !.threshold = IF op = "getBotResponse" THEN PipelineThreshold
                                      ELSE DefaultThreshold]
         IN  task' = [task EXCEPT ![t] =
                 CASE op = "getBotResponse" -> [rec EXCEPT !.pc = "status"]
                   [] op = "initialize" -> initialize(rec, "direct")
                   [] op = "keywordSearch" -> initialize(rec, "kw")
                   [] OTHER -> initialize(rec, "sim")]
    /\ UNCHANGED <<csvData, documents, initialized, pipeInitialized, loadCompleted, call>>

\* checkModelStatus never throws and its answer is only logged; then
\* RAGPipeline.getBotResponse runs up to its await of RAGPipeline.initialize
ModelStatusChecked(t) ==
    /\ task[t].pc = "status"
    /\ task' = [task EXCEPT ![t] =
           IF ~pipeInitialized THEN initialize(task[t], "pipe")
           ELSE [task[t] EXCEPT !.pc = "pipeInited"]]
    /\ UNCHANGED <<csvData, documents, initialized, pipeInitialized, loadCompleted, call>>

\* loadCSV resolves with the rows: loadDocuments empties and refills documents
\* with no await in between, and returns
LoadCSVResolves(t) ==
    /\ task[t].pc = "csv"
    /\ documents' = loadDocuments(csvData)
    /\ loadCompleted' = TRUE
    /\ task' = [task EXCEPT ![t].pc = "loaded"]
    /\ UNCHANGED <<csvData, initialized, pipeInitialized, call>>

\* what the caller of a search that caught an error gets: the empty list
searchCaught(rec, phase) ==
    IF phase = "sim"
    THEN IF rec.op = "similaritySearch"
         THEN [rec EXCEPT !.pc = "done", !.ret = [kind |-> "results", value |-> <<>>]]
         ELSE [rec EXCEPT !.pc = "simReturned", !.similarityResults = <<>>]
    ELSE IF rec.op = "keywordSearch"
         THEN [rec EXCEPT !.pc = "done", !.ret = [kind |-> "results", value |-> <<>>]]
         ELSE [rec EXCEPT !.pc = "kwReturned", !.keywordResults = <<>>]

\* loadCSV rejects: loadDocuments rethrows (232), initialize rejects, and the
\* first catch above it handles the error
LoadCSVRejects(t) ==
    /\ task[t].pc = "csv"
    /\ LET rec == [task[t] EXCEPT !.loadRejected = TRUE]
       IN  task' = [task EXCEPT ![t] =
               CASE rec.phase = "direct" -> [rec EXCEPT !.pc = "done", !.ret = [kind |-> "thrown"]]
                 [] rec.phase = "pipe" -> [rec EXCEPT !.pc = "done", !.ret = [kind |-> "errorText"]]
                 [] OTHER -> searchCaught(rec, rec.phase)]
    /\ UNCHANGED <<csvData, documents, initialized, pipeInitialized, loadCompleted, call>>

\* initialize resumes after loadDocuments and sets the flag (166)
InitializeResumes(t) ==
    /\ task[t].pc = "loaded"
    /\ initialized' = TRUE
    /\ task' = [task EXCEPT ![t].pc = "inited"]
    /\ UNCHANGED <<csvData, documents, pipeInitialized, loadCompleted, call>>

\* a direct call of initialize returns
InitializeReturns(t) ==
    /\ task[t].pc = "inited" /\ task[t].phase = "direct"
    /\ task' = [task EXCEPT ![t].pc = "done", ![t].ret = [kind |-> "void"]]
    /\ UNCHANGED <<csvData, documents, initialized, pipeInitialized, loadCompleted, call>>

\* RAGPipeline.initialize resumes and sets its own flag (17)
PipelineInitialized(t) ==
    /\ task[t].pc = "inited" /\ task[t].phase = "pipe"
    /\ pipeInitialized' = TRUE
    /\ task' = [task EXCEPT ![t].pc = "pipeInited", ![t].loading = FALSE]
    /\ UNCHANGED <<csvData, documents, initialized, loadCompleted, call>>

\* getBotResponse resumes (82) and calls questionSearch(query, 5, 0.3), which
\* calls similaritySearch, which calls initialize
PipelineSearches(t) ==
    /\ task[t].pc = "pipeInited"
    /\ task' = [task EXCEPT ![t] = initialize(task[t], "sim")]
    /\ UNCHANGED <<csvData, documents, initialized, pipeInitialized, loadCompleted, call>>

\* similaritySearch resumes after initialize, scans documents and returns
SimilarityScan(t) ==
    /\ task[t].pc = "inited" /\ task[t].phase = "sim"
    /\ LET results == similarityScan(documents, task[t].query, task[t].k, task[t].threshold)
           rec == [task[t] EXCEPT !.scanned = Append(@, observed(documents)),
                                  !.loading = FALSE]
       IN  task' = [task EXCEPT ![t] =
               IF rec.op = "similaritySearch"
               THEN [rec EXCEPT !.pc = "done", !.ret = [kind |-> "results", value |-> results]]
               ELSE [rec EXCEPT !.pc = "simReturned", !.similarityResults = results]]
    /\ UNCHANGED <<csvData, documents, initialized, pipeInitialized, loadCompleted, call>>

\* questionSearch resumes (364) and calls keywordSearch, which calls initialize
QuestionSearchContinues(t) ==
    /\ task[t].pc = "simReturned"
    /\ task' = [task EXCEPT ![t] = initialize(task[t], "kw")]
    /\ UNCHANGED <<csvData, documents, initialized, pipeInitialized, loadCompleted, call>>

\* keywordSearch resumes after initialize, scans documents and returns
KeywordScan(t) ==
    /\ task[t].pc = "inited" /\ task[t].phase = "kw"
    /\ LET results == keywordScan(documents, task[t].query, task[t].k)
           rec == [task[t] EXCEPT !.scanned = Append(@, observed(documents)),
                                  !.loading = FALSE]
       IN  task' = [task EXCEPT ![t] =
               IF rec.op = "keywordSearch"
               THEN [rec EXCEPT !.pc = "done", !.ret = [kind |-> "results", value |-> results]]
               ELSE [rec EXCEPT !.pc = "kwReturned", !.keywordResults = results]]
    /\ UNCHANGED <<csvData, documents, initialized, pipeInitialized, loadCompleted, call>>

\* questionSearch resumes (365), fuses the two lists and returns; its locals
\* end with it
Fuse(t) ==
    /\ task[t].pc = "kwReturned"
    /\ LET results == fuse(task[t].similarityResults, task[t].keywordResults, task[t].k)
           rec == [task[t] EXCEPT !.similarityResults = <<>>, !.keywordResults = <<>>]
       IN  task' = [task EXCEPT ![t] =
               IF rec.op = "questionSearch"
               THEN [rec EXCEPT !.pc = "done", !.ret = [kind |-> "results", value |-> results]]
               ELSE [rec EXCEPT !.pc = "searched", !.relevantQuestions = results]]
    /\ UNCHANGED <<csvData, documents, initialized, pipeInitialized, loadCompleted, call>>

\* getBotResponse resumes (87): no result is the apology, otherwise the prompt
\* goes to the Generator
PipelineAnswers(t) ==
    /\ task[t].pc = "searched"
    /\ task' = [task EXCEPT ![t] =
           IF Len(task[t].relevantQuestions) = 0
           THEN [task[t] EXCEPT !.pc = "done", !.ret = [kind |-> "noInformation"]]
           ELSE [task[t] EXCEPT !.pc = "generating"]]
    /\ UNCHANGED <<csvData, documents, initialized, pipeInitialized, loadCompleted, call>>

RECURSIVE uniqueInOrder(_, _, _)
\* [...new Set(sources)]
uniqueInOrder(s, i, acc) ==
    IF i > Len(s) THEN acc
    ELSE uniqueInOrder(s, i + 1, IF s[i] \in Range(acc) THEN acc ELSE Append(acc, s[i]))

\* the sources quoted under a generated answer (105-111)
quotedSources(relevantQuestions) ==
    LET top == slice(relevantQuestions, 3)
        sources == [i \in 1..Len(top) |-> top[i].metadata.source]
    IN  slice(uniqueInOrder(sources, 1, <<>>), 2)

\* callLocalAI returns the Generator's text (102-116)
GeneratorResponds(t) ==
    /\ task[t].pc = "generating"
    /\ task' = [task EXCEPT ![t].pc = "done",
                            ![t].ret = [kind |-> "generated",
                                        sources |-> quotedSources(task[t].relevantQuestions)]]
    /\ UNCHANGED <<csvData, documents, initialized, pipeInitialized, loadCompleted, call>>

\* the fallback built from the last match instead of the first
fallbackFromLast(relevantQuestions) ==
    LET metadata == relevantQuestions[Len(relevantQuestions)].metadata
    IN  [kind |-> "fallback", answer |-> metadata.answer, source |-> metadata.source]

\* the answer built from the best match when callLocalAI throws (123-132);
\* metadata.source is never empty (196)
fallbackResponse(relevantQuestions) ==
    LET metadata == relevantQuestions[1].metadata
    IN  [kind |-> "fallback", answer |-> metadata.answer, source |-> metadata.source]

\* callLocalAI throws: no connection, a timeout or a malformed reply (43, 48)
GeneratorFails(t) ==
    /\ task[t].pc = "generating"
    /\ task' = [task EXCEPT ![t].pc = "done", ![t].generatorFailed = TRUE,
                            ![t].ret = fallbackResponse(task[t].relevantQuestions)]
    /\ UNCHANGED <<csvData, documents, initialized, pipeInitialized, loadCompleted, call>>

\* the caller has its answer and may call again
Return(t) ==
    /\ task[t].pc = "done"
    /\ task' = [task EXCEPT ![t] = IdleTask]
    /\ UNCHANGED <<csvData, documents, initialized, pipeInitialized, loadCompleted, call>>

Init ==
    /\ csvData \in TaskCorpora
    /\ documents = <<>>
    /\ initialized = FALSE
    /\ pipeInitialized = FALSE
    /\ loadCompleted = FALSE
    /\ task = NoTasks
    /\ call = NoCall

Next ==
    \E t \in Tasks :
        \/ Call(t)
        \/ ModelStatusChecked(t)
        \/ LoadCSVResolves(t)
        \/ LoadCSVRejects(t)
        \/ InitializeResumes(t)
        \/ InitializeReturns(t)
        \/ PipelineInitialized(t)
        \/ PipelineSearches(t)
        \/ SimilarityScan(t)
        \/ QuestionSearchContinues(t)
        \/ KeywordScan(t)
        \/ Fuse(t)
        \/ PipelineAnswers(t)
        \/ GeneratorResponds(t)
        \/ GeneratorFails(t)
        \/ Return(t)

Spec == Init /\ [][Next]_vars

---------------------------------------------------------------------------
(* Properties.                                                             *)

SearchOps == {"similaritySearch", "keywordSearch", "questionSearch"}

\* the callers whose loadCSV is in flight
LoadsInFlight == {t \in Tasks : task[t].pc = "csv"}

\* the 0-based indexes of the source's rows that have a question and an answer of
\* at least ten characters after trimming
ValidIndexes ==
    {i - 1 : i \in {j \in 1..Len(csvData) :
                       /\ Len(trim(csvData[j].question)) >= 10
                       /\ Len(trim(csvData[j].answer)) >= 10}}

RECURSIVE validFrom(_)
validFrom(j) ==
    IF j > Len(csvData) THEN <<>>
    ELSE (IF (j - 1) \in ValidIndexes
          THEN <<[qa_pair_id |-> j - 1, question |-> trim(csvData[j].question)]>>
          ELSE <<>>) \o validFrom(j + 1)

\* what a scan of the complete index reads: one document per valid row of the
\* source, in the source's order
CompleteIndex == validFrom(1)

\* C1: queries that arrive before the first load has completed share one load:
\* at no time are two loadCSV calls in flight.
C1_SingleLoadInFlight == Cardinality(LoadsInFlight) <= 1

\* C2: every scan of a scorer runs after some load has completed and reads the
\* complete index: one document per valid record of the source.
C2_ScanSeesCompleteIndex ==
    LET complete == CompleteIndex
    IN  \A t \in Tasks : \A i \in 1..Len(task[t].scanned) :
            loadCompleted /\ task[t].scanned[i] = complete

\* C2 witness: a caller has scanned a non-empty index while another caller's own
\* load of the same source is still under way.
C2_Witness ==
    \E t \in Tasks, u \in Tasks :
        /\ t # u
        /\ Len(task[t].scanned) > 0 /\ Len(task[t].scanned[1]) > 0
        /\ task[u].pc \in {"csv", "loaded"}

\* C3: a search whose load was rejected ends with an error thrown to its caller,
\* never with a result list.
C3_LoadFailureSurfaces ==
    \A t \in Tasks :
        (task[t].pc = "done" /\ task[t].op \in SearchOps /\ task[t].loadRejected)
            => task[t].ret.kind = "thrown"

\* C4: when retrieval found results and the Generator call failed, getBotResponse
\* returns the fallback answer carrying the answer and source of the first-ranked
\* result, and the store and the pipeline stay initialized.
C4_FallbackOnGeneratorFailure ==
    \A t \in Tasks :
        task[t].generatorFailed =>
            /\ task[t].pc = "done"
            /\ Len(task[t].relevantQuestions) > 0
            /\ task[t].ret.kind = "fallback"
            /\ task[t].ret.answer = task[t].relevantQuestions[1].metadata.answer
            /\ task[t].ret.source = task[t].relevantQuestions[1].metadata.source
            /\ \A i \in 1..Len(task[t].relevantQuestions) :
                 GE(task[t].relevantQuestions[1].similarity,
                    task[t].relevantQuestions[i].similarity)
            /\ initialized /\ pipeInitialized /\ observed(documents) = CompleteIndex

\* C4 witness: a getBotResponse call ended by the fallback with several results
\* retrieved.
C4_Witness ==
    \E t \in Tasks :
        /\ task[t].generatorFailed /\ task[t].pc = "done"
        /\ task[t].op = "getBotResponse"
        /\ Len(task[t].relevantQuestions) > 1

\* C10: once initialize has completed, no call starts a load and the index keeps
\* its documents in their order.
C10_InitializeIdempotent ==
    [][initialized =>
          /\ initialized'
          /\ documents' = documents
          /\ \A t \in Tasks : task'[t].pc = "csv" => task[t].pc = "csv"]_vars

\* C10 witness: a direct initialize call returned without loading, on a store that
\* holds documents.
C10_Witness ==
    \E t \in Tasks :
        /\ task[t].op = "initialize" /\ task[t].pc = "done"
        /\ task[t].ret.kind = "void" /\ ~task[t].loading
        /\ initialized /\ Len(documents) > 0

\* the documents whose stored question is the query of the last call, verbatim
VerbatimMatches == {i \in 1..Len(documents) : documents[i].metadata.question = call.query}

\* the positions of document d in the last call's result
PositionsOf(d) ==
    {i \in 1..Len(call.result) : call.result[i].metadata.qa_pair_id = d.metadata.qa_pair_id}

\* twice the keyword scorer's points for document d under the last call's query
KeywordPoints(d) ==
    keywordScore(d, toLowerCase(call.query),
                 SelectSeq(splitWS(toLowerCase(call.query)), LAMBDA word : Len(word) > 2))

\* the similarity scorer's value for document d under the last call's query
SimilarityOf(d) == calculateQuestionSimilarity(tokenize(toLowerCase(call.query)), d.tokens)

\* C5 as stated, read in its favour where several documents store the same
\* question: questionSearch with a stored question as the query returns a document
\* storing that question with a score no other returned candidate exceeds.
C5_VerbatimRanksFirst ==
    (call.op = "questionSearch" /\ VerbatimMatches # {}) =>
        \E m \in VerbatimMatches :
            \E i \in PositionsOf(documents[m]) :
                \A j \in 1..Len(call.result) :
                    GE(call.result[i].similarity, call.result[j].similarity)

\* C5 amended: when the stored question yields at least one token, the document
\* has similarity 1, the search returns a first result of score 1 or more, every
\* result ahead of the document (every result, when it is not returned) scores 1
\* or more, and the document is first with score 1 when no other document has
\* similarity 1 or ten keyword points.
C5_VerbatimRanksFirstAmongBounded ==
    call.op = "questionSearch" =>
        \A m \in VerbatimMatches :
            documents[m].tokens # <<>> =>
                /\ EQ(SimilarityOf(documents[m]), One)
                /\ Len(call.result) >= 1
                /\ GE(call.result[1].similarity, One)
                /\ \A i \in 1..Len(call.result) :
                     (\A j \in PositionsOf(documents[m]) : i < j)
                         => GE(call.result[i].similarity, One)
                /\ (\A n \in 1..Len(documents) :
                        n # m => /\ ~EQ(SimilarityOf(documents[n]), One)
                                 /\ KeywordPoints(documents[n]) < 20)
                     => /\ PositionsOf(documents[m]) = {1}
                        /\ EQ(call.result[1].similarity, One)

\* C5 witness: the verbatim match is returned first, ahead of another candidate.
C5_Witness ==
    /\ call.op = "questionSearch"
    /\ Len(call.result) >= 2
    /\ \E m \in VerbatimMatches :
         /\ documents[m].tokens # <<>>
         /\ PositionsOf(documents[m]) = {1}
         /\ GT(call.result[1].similarity, call.result[2].similarity)

\* C6: the similarity scorer's value is a number between 0 and 1.
C6_ScoreInUnitInterval ==
    call.op = "calculateQuestionSimilarity" =>
        GE(call.score, Zero) /\ GE(One, call.score)

\* C7: the list questionSearch returns holds no qa_pair_id twice.
C7_NoDuplicateIds ==
    call.op = "questionSearch" =>
        \A i \in 1..Len(call.result) : \A j \in 1..Len(call.result) :
            i # j => call.result[i].metadata.qa_pair_id # call.result[j].metadata.qa_pair_id

\* C7 witness: a document found by both scorers is returned with another one.
C7_Witness ==
    /\ call.op = "questionSearch"
    /\ Len(call.result) >= 2
    /\ \E i \in 1..Len(call.similarityResults) : \E j \in 1..Len(call.keywordResults) :
         call.similarityResults[i].metadata.qa_pair_id
             = call.keywordResults[j].metadata.qa_pair_id

\* C8: similaritySearch returns at most k results, each with a score of at least
\* the threshold.
C8_AtMostKAboveThreshold ==
    call.op = "similaritySearch" =>
        /\ Len(call.result) <= call.k
        /\ \A i \in 1..Len(call.result) : GE(call.result[i].similarity, call.threshold)

\* C8 witness: a search that returned some documents and left others out.
C8_Witness ==
    /\ call.op = "similaritySearch"
    /\ Len(call.result) >= 1
    /\ Len(call.result) < Len(documents)
    /\ GT(call.threshold, Zero)

\* C9: after a load every document holds the trimmed question and answer of its
\* row, each at least ten characters long and not "nan", and no row that fails
\* this has a document.
C9_OnlyValidRecordsIndexed ==
    loadCompleted =>
        /\ \A i \in 1..Len(documents) :
             LET m == documents[i].metadata
                 row == csvData[m.qa_pair_id + 1]
             IN  /\ m.question = trim(row.question) /\ m.answer = trim(row.answer)
                 /\ Len(m.question) >= 10 /\ Len(m.answer) >= 10
                 /\ m.question # <<"n","a","n">> /\ m.answer # <<"n","a","n">>
                 /\ m.question_length = Len(m.question)
                 /\ m.answer_length = Len(m.answer)
        /\ \A j \in 1..Len(csvData) :
             (j - 1) \notin ValidIndexes
                 => \A i \in 1..Len(documents) : documents[i].metadata.qa_pair_id # j - 1

\* C9 witness: a load that skipped a record and kept the one after it.
C9_Witness ==
    /\ loadCompleted /\ initialized
    /\ \E j \in 1..Len(csvData) :
         /\ (j - 1) \notin ValidIndexes
         /\ \E i \in 1..Len(documents) : documents[i].metadata.qa_pair_id > j - 1

\* the value the scorer is said to return: min(I/U + boost, 1) over the distinct
\* tokens of the two sequences, and 0 when there is no token at all
claimedSimilarity(queryTokens, docTokens) ==
    LET I == Cardinality(Range(queryTokens) \cap Range(docTokens))
        U == Cardinality(Range(queryTokens) \cup Range(docTokens))
        boost == Cardinality({w \in Range(questionWords) :
                     w \in Range(queryTokens) /\ w \in Range(docTokens)})
    IN  IF U = 0 THEN Zero
        ELSE IF 10 * I + boost * U > 10 * U THEN One
        ELSE <<10 * I + boost * U, 10 * U>>

\* C11: for every pair of token sequences the scorer returns min(I/U + boost, 1),
\* I and U counting the distinct tokens present in both and in either sequence
\* and boost being a tenth per question word present in both (and 0 when both
\* sequences are empty).  Stated here for the pairs that hold at least one
\* token: the pair of empty sequences is the case of C6.
C11_ScoreIsJaccardPlusBoost ==
    /\ call.op = "calculateQuestionSimilarity"
    /\ call.queryTokens # <<>> \/ call.docTokens # <<>>
    => EQ(call.score, claimedSimilarity(call.queryTokens, call.docTokens))

\* the ids of a result list, and the places of an id in it
IdsOf(results) == {results[n].metadata.qa_pair_id : n \in 1..Len(results)}
PlacesOf(results, id) == {n \in 1..Len(results) : results[n].metadata.qa_pair_id = id}

\* the entries of the similarity list whose document the keyword list holds too
SharedEntries ==
    {i \in 1..Len(call.similarityResults) :
        call.similarityResults[i].metadata.qa_pair_id \in IdsOf(call.keywordResults)}

\* a result list in non-increasing order of score
NonIncreasing(results) ==
    \A n \in 1..Len(results) - 1 : GE(results[n].similarity, results[n + 1].similarity)

\* C12: a document held by both the similarity list and the keyword list is in
\* the output of questionSearch exactly once, with the score of the similarity
\* list, and the output is in non-increasing order of score and at most k long.
C12_SharedDocumentExactlyOnce ==
    call.op = "questionSearch" =>
        /\ \A i \in SharedEntries :
             LET places == PlacesOf(call.result,
                                    call.similarityResults[i].metadata.qa_pair_id)
             IN  /\ Cardinality(places) = 1
                 /\ \A n \in places : call.result[n] = call.similarityResults[i]
        /\ NonIncreasing(call.result)
        /\ Len(call.result) <= call.k

\* C12, amended: a document held by both lists is in the output at most once,
\* and then with the score of the similarity list; it is absent only when the
\* output is full with k entries scoring at least as much; the output is in
\* non-increasing order of score and holds k of the distinct documents of the two
\* lists, or all of them when they are fewer.
C12_SharedDocumentAtMostOnce ==
    call.op = "questionSearch" =>
        /\ \A i \in SharedEntries :
             LET entry == call.similarityResults[i]
                 places == PlacesOf(call.result, entry.metadata.qa_pair_id)
             IN  /\ Cardinality(places) <= 1
                 /\ \A n \in places : call.result[n] = entry
                 /\ places = {} =>
                       /\ Len(call.result) = call.k
                       /\ \A n \in 1..Len(call.result) :
                            GE(call.result[n].similarity, entry.similarity)
        /\ NonIncreasing(call.result)
        /\ LET distinct == Cardinality(IdsOf(call.similarityResults)
                                           \cup IdsOf(call.keywordResults))
           IN  Len(call.result) = IF distinct < call.k THEN distinct ELSE call.k

\* C12 witness: a search whose output holds a document of both lists, scored
\* differently by the two, next to a document of the keyword list alone.
C12_Witness ==
    /\ call.op = "questionSearch"
    /\ \E i \in SharedEntries :
         LET entry == call.similarityResults[i]
             id == entry.metadata.qa_pair_id
         IN  /\ \E j \in PlacesOf(call.keywordResults, id) :
                   ~EQ(call.keywordResults[j].similarity, entry.similarity)
             /\ \E n \in PlacesOf(call.result, id) : call.result[n] = entry
    /\ \E n \in 1..Len(call.result) :
         call.result[n].metadata.qa_pair_id \notin IdsOf(call.similarityResults)

====
